---- MODULE Spec2Model ----
(***************************************************************************)
(* Model of backend/app.py: the in-memory order store (orders_db), the     *)
(* audit log (logs_db), the upload handler that folds spreadsheet rows     *)
(* into the store, the scan handler that advances a line item, and the     *)
(* read handlers.                                                          *)
(*                                                                         *)
(* Spec      every request handler runs as one atomic step.                *)
(* SpecConc  the scan handler runs on two server threads, one statement    *)
(*           at a time (Flask's development server is threaded).           *)
(***************************************************************************)
EXTENDS Integers, Sequences, FiniteSets, TLC

VARIABLES
    orders_db,        \* the dict orders_db: order id -> order
    logs_db,          \* the list logs_db
    now,              \* the wall clock read by JalaliDatetime.now(), in seconds
    resp,             \* the response of the last handler that returned
    threads,          \* per server thread: position and locals of scan_order
    firstOrderRow,    \* history: order id -> order-level cells of the first row applied under it
    lastItemRow,      \* history: <<order id, sku>> -> Quantity cell of the last row that wrote the item
    scansSinceIngest, \* history: <<order id, sku>> -> successful scans returned since the item was last written
    inserted          \* history: the order ids, and per order id its skus, in order of first insertion

vars == <<orders_db, logs_db, now, resp, threads,
          firstOrderRow, lastItemRow, scansSinceIngest, inserted>>

----------------------------------------------------------------------------
(* Bounds of the exploration.                                              *)

MaxLogs == 3        \* handlers that append to logs_db stop once it holds this many entries
MaxUploads == 2     \* upload requests handled
MaxRows == 2        \* rows per uploaded sheet
MaxClock == 1       \* the clock advances at most this far
NumThreads == 2     \* server threads handling scan requests at the same time

SecondsPerMinute == 60

----------------------------------------------------------------------------
(* Python values held in spreadsheet cells and in the store.               *)

PyInt(n) == [kind |-> "int", n |-> n, s |-> ""]
PyStr(s) == [kind |-> "str", n |-> 0, s |-> s]
NaN == [kind |-> "nan", n |-> 0, s |-> ""]
PyNone == [kind |-> "none", n |-> 0, s |-> ""]

\* str(v)
str(v) ==
    CASE v.kind = "int" -> ToString(v.n)
      [] v.kind = "str" -> v.s
      [] v.kind = "nan" -> "nan"
      [] OTHER -> "None"

\* pd.notna(v)
notna(v) == v.kind \notin {"nan", "none"}

\* The strings Python parses as numbers, among those the sheets carry.
DecimalLiterals == [s \in {"3"} |-> 3]

Ok(n) == [raised |-> FALSE, n |-> n, msg |-> ""]
Raise(msg) == [raised |-> TRUE, n |-> 0, msg |-> msg]

\* int(v) of a cell that is not missing
int(v) ==
    CASE v.kind = "int" -> Ok(v.n)
      [] v.kind = "str" /\ v.s \in DOMAIN DecimalLiterals -> Ok(DecimalLiterals[v.s])
      [] v.kind = "str" ->
            Raise("invalid literal for int() with base 10: '" \o v.s \o "'")
      [] OTHER -> Raise("cannot convert to integer")

\* int(float(v)) of a cell that is not missing
int_float(v) ==
    CASE v.kind = "int" -> Ok(v.n)
      [] v.kind = "str" /\ v.s \in DOMAIN DecimalLiterals -> Ok(DecimalLiterals[v.s])
      [] v.kind = "str" ->
            Raise("could not convert string to float: '" \o v.s \o "'")
      [] OTHER -> Raise("float() argument must be a string or a number")

Pad3(n) ==
    IF n < 10 THEN "00" \o ToString(n)
    ELSE IF n < 100 THEN "0" \o ToString(n)
    ELSE ToString(n)

RECURSIVE GroupDigits(_)
GroupDigits(n) ==
    IF n < 1000 THEN ToString(n)
    ELSE GroupDigits(n \div 1000) \o "," \o Pad3(n % 1000)

\* f"{n:,}"
format_grouped(n) == IF n < 0 THEN "-" \o GroupDigits(-n) ELSE GroupDigits(n)

\* strftime("%Y/%m/%d %H:%M") drops the seconds
strftime_minutes(t) == t \div SecondsPerMinute

----------------------------------------------------------------------------
(* Python dicts keep their keys in insertion order.                        *)

EmptyDict == [keys |-> <<>>, val |-> <<>>]
DictHas(d, k) == k \in DOMAIN d.val
DictKeys(d) == DOMAIN d.val
DictSet(d, k, v) ==
    [keys |-> IF k \in DOMAIN d.val THEN d.keys ELSE Append(d.keys, k),
     val |-> [x \in (DOMAIN d.val) \cup {k} |-> IF x = k THEN v ELSE d.val[x]]]

----------------------------------------------------------------------------
(* add_log: append one entry to logs_db.  uuid4 ids are modelled as the    *)
(* entry's position, which is fresh at every call.                         *)

\* a log that puts the newest entry first
add_log_prepend(logs, t, message, status, details) ==
    <<[id |-> Len(logs) + 1, timestamp |-> t, message |-> message,
       status |-> status, details |-> details]>> \o logs

add_log(logs, t, message, status, details) ==
    Append(logs, [id |-> Len(logs) + 1, timestamp |-> t, message |-> message,
                  status |-> status, details |-> details])

----------------------------------------------------------------------------
(* upload_file: the row loop.                                              *)

\* 'Payment': f"{int(float(row['Payment'])):,}" if pd.notna(row['Payment']) else None
format_payment(cell) ==
    IF notna(cell)
    THEN LET r == int_float(cell)
         IN  [raised |-> r.raised, msg |-> r.msg, v |-> PyStr(format_grouped(r.n))]
    ELSE [raised |-> FALSE, msg |-> "", v |-> PyNone]

\* 'Quantity': int(row['Quantity']) if pd.notna(row['Quantity']) else 0
coerce_quantity(cell) == IF notna(cell) THEN int(cell) ELSE Ok(0)

\* 'Price': f"{int(float(row['Price'])):,}" if pd.notna(row['Price']) else "0"
format_price(cell) ==
    IF notna(cell)
    THEN LET r == int_float(cell)
         IN  [raised |-> r.raised, msg |-> r.msg, v |-> format_grouped(r.n)]
    ELSE [raised |-> FALSE, msg |-> "", v |-> "0"]

\* The order written when order_id is not yet a key of orders_db.
new_order(row, payment) ==
    [SKUs |-> EmptyDict, State |-> row.State, City |-> row.City,
     Payment |-> payment, Status |-> "Pending"]

\* an upload that refreshes State and City of an order it already holds
ensure_order_refresh(db, order_id, row) ==
    LET pay == format_payment(row.Payment)
    IN  IF DictHas(db, order_id)
        THEN [raised |-> FALSE, msg |-> "",
              db |-> DictSet(db, order_id,
                       [db.val[order_id] EXCEPT !.State = row.State, !.City = row.City])]
        ELSE IF pay.raised
        THEN [raised |-> TRUE, msg |-> pay.msg, db |-> db]
        ELSE [raised |-> FALSE, msg |-> "",
              db |-> DictSet(db, order_id, new_order(row, pay.v))]

\* if order_id not in orders_db: orders_db[order_id] = {...}
ensure_order(db, order_id, row) ==
    IF DictHas(db, order_id)
    THEN [raised |-> FALSE, msg |-> "", db |-> db]
    ELSE LET pay == format_payment(row.Payment)
         IN  IF pay.raised
             THEN [raised |-> TRUE, msg |-> pay.msg, db |-> db]
             ELSE [raised |-> FALSE, msg |-> "",
                   db |-> DictSet(db, order_id, new_order(row, pay.v))]

\* a line item whose quantity adds up over the rows of its SKU
new_item_accumulate(old, row, quantity, price) ==
    [Title |-> row.Title, Color |-> row.Color,
     Quantity |-> IF old = <<>> THEN quantity ELSE old[1].Quantity + quantity,
     Scanned |-> 0, Price |-> price, ScanTimestamp |-> <<>>]

\* a line item that keeps the scan timestamp of the entry it replaces
new_item_keep_stamp(old, row, quantity, price) ==
    [Title |-> row.Title, Color |-> row.Color, Quantity |-> quantity,
     Scanned |-> 0, Price |-> price,
     ScanTimestamp |-> IF old = <<>> THEN <<>> ELSE old[1].ScanTimestamp]

\* The line item written for a row; old is the entry it replaces, if any.
new_item(old, row, quantity, price) ==
    [Title |-> row.Title, Color |-> row.Color, Quantity |-> quantity,
     Scanned |-> 0, Price |-> price, ScanTimestamp |-> <<>>]

\* an upload that replaces the whole SKUs dict of the order by the new item
write_item_alone(db, order_id, sku, row) ==
    LET q == coerce_quantity(row.Quantity)
        p == format_price(row.Price)
        order == db.val[order_id]
    IN  IF q.raised THEN [raised |-> TRUE, msg |-> q.msg, db |-> db]
        ELSE IF p.raised THEN [raised |-> TRUE, msg |-> p.msg, db |-> db]
        ELSE [raised |-> FALSE, msg |-> "",
              db |-> DictSet(db, order_id,
                       [order EXCEPT !.SKUs = DictSet(EmptyDict, sku, new_item(<<>>, row, q.n, p.v))])]

\* orders_db[order_id]['SKUs'][sku] = {...}; db already holds order_id
write_item(db, order_id, sku, row) ==
    LET q == coerce_quantity(row.Quantity)
        p == format_price(row.Price)
        order == db.val[order_id]
        old == IF DictHas(order.SKUs, sku) THEN <<order.SKUs.val[sku]>> ELSE <<>>
    IN  IF q.raised THEN [raised |-> TRUE, msg |-> q.msg, db |-> db]
        ELSE IF p.raised THEN [raised |-> TRUE, msg |-> p.msg, db |-> db]
        ELSE [raised |-> FALSE, msg |-> "",
              db |-> DictSet(db, order_id,
                       [order EXCEPT !.SKUs = DictSet(@, sku, new_item(old, row, q.n, p.v))])]

\* One pass of the body of `for _, row in df.iterrows()`.
\* stage tells how far the row got: "order" raised before the order was
\* stored, "item" raised after it, "done" reached processed_count += 1.
process_row(db, row) ==
    LET order_id == str(row.OrderID)
        a == ensure_order(db, order_id, row)
    IN  IF a.raised THEN [stage |-> "order", msg |-> a.msg, db |-> a.db]
        ELSE LET b == write_item(a.db, order_id, str(row.SKU), row)
             IN  IF b.raised THEN [stage |-> "item", msg |-> b.msg, db |-> b.db]
                 ELSE [stage |-> "done", msg |-> "", db |-> b.db]

\* a loop that reports the first exception but goes on with the rows after it
RECURSIVE iterrows_continue(_, _, _, _)
iterrows_continue(db, rows, i, processed_count) ==
    IF i > Len(rows)
    THEN [db |-> db, processed_count |-> processed_count, raised |-> FALSE,
          msg |-> "", at |-> 0, stage |-> "done"]
    ELSE LET r == process_row(db, rows[i])
         IN  IF r.stage = "done"
             THEN iterrows_continue(r.db, rows, i + 1, processed_count + 1)
             ELSE [db |-> iterrows_continue(r.db, rows, i + 1, processed_count).db,
                   processed_count |-> processed_count, raised |-> TRUE,
                   msg |-> r.msg, at |-> i, stage |-> r.stage]

\* The loop from row i on; an exception leaves the loop at once.
RECURSIVE iterrows(_, _, _, _)
iterrows(db, rows, i, processed_count) ==
    IF i > Len(rows)
    THEN [db |-> db, processed_count |-> processed_count, raised |-> FALSE,
          msg |-> "", at |-> 0, stage |-> "done"]
    ELSE LET r == process_row(db, rows[i])
         IN  IF r.stage = "done"
             THEN iterrows(r.db, rows, i + 1, processed_count + 1)
             ELSE [db |-> r.db, processed_count |-> processed_count, raised |-> TRUE,
                   msg |-> r.msg, at |-> i, stage |-> r.stage]

----------------------------------------------------------------------------
(* History kept beside the store, for stating the claims.                  *)

FnSet(f, k, v) == [x \in (DOMAIN f) \cup {k} |-> IF x = k THEN v ELSE f[x]]

OrderCells(row) == [State |-> row.State, City |-> row.City, Payment |-> row.Payment]
ItemKey(row) == <<str(row.OrderID), str(row.SKU)>>

\* rows 1..n got past the order-level part of the loop body
RECURSIVE NoteOrderRows(_, _, _, _)
NoteOrderRows(f, rows, i, n) ==
    IF i > n THEN f
    ELSE LET k == str(rows[i].OrderID)
         IN  NoteOrderRows(IF k \in DOMAIN f THEN f ELSE FnSet(f, k, OrderCells(rows[i])),
                           rows, i + 1, n)

\* rows 1..n wrote their line item
RECURSIVE NoteItemRows(_, _, _, _)
NoteItemRows(f, rows, i, n) ==
    IF i > n THEN f
    ELSE NoteItemRows(FnSet(f, ItemKey(rows[i]), rows[i].Quantity), rows, i + 1, n)

RECURSIVE ResetScans(_, _, _, _)
ResetScans(f, rows, i, n) ==
    IF i > n THEN f
    ELSE ResetScans(FnSet(f, ItemKey(rows[i]), 0), rows, i + 1, n)

InSeq(q, x) == \E j \in DOMAIN q : q[j] = x
AppendNew(q, x) == IF InSeq(q, x) THEN q ELSE Append(q, x)

\* rows 1..nOrder stored their order if it was new, rows 1..nItem their line item
RECURSIVE NoteInserted(_, _, _, _, _)
NoteInserted(ins, rows, i, nOrder, nItem) ==
    IF i > nOrder THEN ins
    ELSE LET o == str(rows[i].OrderID)
             known == IF o \in DOMAIN ins.skus THEN ins.skus[o] ELSE <<>>
         IN  NoteInserted(
                 [orders |-> AppendNew(ins.orders, o),
                  skus |-> FnSet(ins.skus, o,
                                 IF i <= nItem THEN AppendNew(known, str(rows[i].SKU)) ELSE known)],
                 rows, i + 1, nOrder, nItem)

AllIdle == \A t \in DOMAIN threads : threads[t].pc = "idle"

----------------------------------------------------------------------------
(* POST /api/upload                                                        *)

Respond(code, success, message, data) ==
    [code |-> code, success |-> success, message |-> message, data |-> data]

\* every path of upload_file logs one entry whose message starts with "File"
UploadMessages == {"File upload failed", "File processing failed", "File uploaded successfully"}
UploadsLogged(logs) == Cardinality({i \in DOMAIN logs : logs[i].message \in UploadMessages})

upload_file(req) ==
    /\ Len(logs_db) < MaxLogs
    /\ UploadsLogged(logs_db) < MaxUploads
    /\ IF ~req.file
       THEN /\ logs_db' = add_log(logs_db, now, "File upload failed", "error", "No file provided")
            /\ resp' = Respond(400, FALSE, "No file provided", <<>>)
            /\ UNCHANGED <<orders_db, firstOrderRow, lastItemRow, inserted, scansSinceIngest>>
       ELSE IF ~req.xlsx
       THEN /\ logs_db' = add_log(logs_db, now, "File upload failed", "error", "Invalid file format")
            /\ resp' = Respond(400, FALSE, "Invalid file format", <<>>)
            /\ UNCHANGED <<orders_db, firstOrderRow, lastItemRow, inserted, scansSinceIngest>>
       ELSE IF ~req.readable
       THEN /\ logs_db' = add_log(logs_db, now, "File processing failed", "error", "File is not a zip file")
            /\ resp' = Respond(500, FALSE, "Error processing file: File is not a zip file", <<>>)
            /\ UNCHANGED <<orders_db, firstOrderRow, lastItemRow, inserted, scansSinceIngest>>
       ELSE LET r == iterrows(orders_db, req.rows, 1, 0)
                nOrder == IF ~r.raised THEN Len(req.rows)
                          ELSE IF r.stage = "item" THEN r.at ELSE r.at - 1
            IN  /\ orders_db' = r.db
                /\ firstOrderRow' = NoteOrderRows(firstOrderRow, req.rows, 1, nOrder)
                /\ lastItemRow' = NoteItemRows(lastItemRow, req.rows, 1, r.processed_count)
                /\ scansSinceIngest' = ResetScans(scansSinceIngest, req.rows, 1, r.processed_count)
                /\ inserted' = NoteInserted(inserted, req.rows, 1, nOrder, r.processed_count)
                /\ IF r.raised
                   THEN /\ logs_db' = add_log(logs_db, now, "File processing failed", "error", r.msg)
                        /\ resp' = Respond(500, FALSE, "Error processing file: " \o r.msg, <<>>)
                   ELSE /\ logs_db' = add_log(logs_db, now, "File uploaded successfully", "success",
                                              "Processed " \o ToString(r.processed_count) \o " orders")
                        /\ resp' = Respond(200, TRUE, "File uploaded and processed successfully",
                                           <<r.processed_count>>)
    /\ UNCHANGED <<now, threads>>

----------------------------------------------------------------------------
(* POST /api/scan                                                          *)

\* if not order_id or not sku
missing_fields(order_id, sku) == order_id = "" \/ sku = ""

\* if order_id not in orders_db or sku not in orders_db[order_id]['SKUs']
not_found(db, order_id, sku) ==
    \/ ~DictHas(db, order_id)
    \/ ~DictHas(db.val[order_id].SKUs, sku)

\* orders_db[order_id]['SKUs'][sku][field] = value
set_item_field(db, order_id, sku, field, value) ==
    [db EXCEPT !.val[order_id].SKUs.val[sku][field] = value]

\* a scan that counts two units
scan_update_twice(db, order_id, sku, t) ==
    LET item == db.val[order_id].SKUs.val[sku]
        db1 == set_item_field(db, order_id, sku, "Scanned", item.Scanned + 2)
    IN  set_item_field(db1, order_id, sku, "ScanTimestamp", <<strftime_minutes(t)>>)

\* a scan that stops counting once the requested quantity is reached
scan_update_capped(db, order_id, sku, t) ==
    LET item == db.val[order_id].SKUs.val[sku]
        n == IF item.Scanned >= item.Quantity THEN item.Scanned ELSE item.Scanned + 1
        db1 == set_item_field(db, order_id, sku, "Scanned", n)
    IN  set_item_field(db1, order_id, sku, "ScanTimestamp", <<strftime_minutes(t)>>)

\* orders_db[order_id]['SKUs'][sku]['Scanned'] += 1
\* orders_db[order_id]['SKUs'][sku]['ScanTimestamp'] = now().strftime("%Y/%m/%d %H:%M")
scan_update(db, order_id, sku, t) ==
    LET item == db.val[order_id].SKUs.val[sku]
        db1 == set_item_field(db, order_id, sku, "Scanned", item.Scanned + 1)
    IN  set_item_field(db1, order_id, sku, "ScanTimestamp", <<strftime_minutes(t)>>)

scan_log(logs, db, order_id, sku, t) ==
    add_log(logs, t, "Item scanned: Order " \o order_id \o ", SKU " \o sku, "success",
            "Scanned count: " \o ToString(db.val[order_id].SKUs.val[sku].Scanned))

\* a scan that creates the line item it does not find in an existing order
scan_order_upsert(order_id, sku) ==
    /\ IF missing_fields(order_id, sku)
       THEN /\ resp' = Respond(400, FALSE, "Missing required fields", <<>>)
            /\ UNCHANGED <<orders_db, logs_db, scansSinceIngest>>
       ELSE IF ~DictHas(orders_db, order_id)
       THEN /\ resp' = Respond(404, FALSE, "Order or SKU not found", <<>>)
            /\ UNCHANGED <<orders_db, logs_db, scansSinceIngest>>
       ELSE LET blank == [Title |-> PyNone, Color |-> PyNone, Quantity |-> 0, Scanned |-> 0,
                          Price |-> "0", ScanTimestamp |-> <<>>]
                order == orders_db.val[order_id]
                db == IF DictHas(order.SKUs, sku) THEN orders_db
                      ELSE DictSet(orders_db, order_id,
                                   [order EXCEPT !.SKUs = DictSet(@, sku, blank)])
                done == IF <<order_id, sku>> \in DOMAIN scansSinceIngest
                        THEN scansSinceIngest[<<order_id, sku>>] ELSE 0
            IN  /\ Len(logs_db) < MaxLogs
                /\ orders_db' = scan_update(db, order_id, sku, now)
                /\ logs_db' = scan_log(logs_db, orders_db', order_id, sku, now)
                /\ scansSinceIngest' = FnSet(scansSinceIngest, <<order_id, sku>>, done + 1)
                /\ resp' = Respond(200, TRUE, "Scan successful", <<>>)
    /\ UNCHANGED <<now, threads, firstOrderRow, lastItemRow, inserted>>

scan_order(order_id, sku) ==
    /\ IF missing_fields(order_id, sku)
       THEN /\ resp' = Respond(400, FALSE, "Missing required fields", <<>>)
            /\ UNCHANGED <<orders_db, logs_db, scansSinceIngest>>
       ELSE IF not_found(orders_db, order_id, sku)
       THEN /\ resp' = Respond(404, FALSE, "Order or SKU not found", <<>>)
            /\ UNCHANGED <<orders_db, logs_db, scansSinceIngest>>
       ELSE /\ Len(logs_db) < MaxLogs
            /\ orders_db' = scan_update(orders_db, order_id, sku, now)
            /\ logs_db' = scan_log(logs_db, orders_db', order_id, sku, now)
            /\ scansSinceIngest' = FnSet(scansSinceIngest, <<order_id, sku>>,
                                         scansSinceIngest[<<order_id, sku>>] + 1)
            /\ resp' = Respond(200, TRUE, "Scan successful", <<>>)
    /\ UNCHANGED <<now, threads, firstOrderRow, lastItemRow, inserted>>

----------------------------------------------------------------------------
(* GET /api/orders and GET /api/orders/<order_id>                          *)

\* a status that needs one scan more than requested
item_status_strict(details) ==
    IF details.Scanned > details.Quantity THEN "Fulfilled" ELSE "Pending"

\* 'Fulfilled' if details['Scanned'] >= details['Quantity'] else 'Pending'
item_status(details) ==
    IF details.Scanned >= details.Quantity THEN "Fulfilled" ELSE "Pending"

order_record(order_id, order_data, sku) ==
    LET details == order_data.SKUs.val[sku]
    IN  [id |-> order_id, sku |-> sku, title |-> details.Title, color |-> details.Color,
         quantity |-> details.Quantity, scanned |-> details.Scanned,
         status |-> item_status(details), price |-> details.Price,
         state |-> order_data.State, city |-> order_data.City,
         payment |-> order_data.Payment]

\* the records of one order, from its i-th SKU on
RECURSIVE order_records(_, _, _)
order_records(order_id, order_data, i) ==
    IF i > Len(order_data.SKUs.keys) THEN <<>>
    ELSE <<order_record(order_id, order_data, order_data.SKUs.keys[i])>>
         \o order_records(order_id, order_data, i + 1)

\* a listing that walks the orders from the newest to the oldest
RECURSIVE orders_list_newest_first(_, _)
orders_list_newest_first(db, i) ==
    IF i > Len(db.keys) THEN <<>>
    ELSE orders_list_newest_first(db, i + 1) \o order_records(db.keys[i], db.val[db.keys[i]], 1)

\* orders_list, from the i-th order on
RECURSIVE orders_list(_, _)
orders_list(db, i) ==
    IF i > Len(db.keys) THEN <<>>
    ELSE order_records(db.keys[i], db.val[db.keys[i]], 1) \o orders_list(db, i + 1)

get_orders ==
    /\ resp' = Respond(200, TRUE, "Orders retrieved successfully", orders_list(orders_db, 1))
    /\ UNCHANGED <<orders_db, logs_db, now, threads, firstOrderRow, lastItemRow, inserted, scansSinceIngest>>

get_order(order_id) ==
    /\ IF ~DictHas(orders_db, order_id)
       THEN resp' = Respond(404, FALSE, "Order not found", <<>>)
       ELSE resp' = Respond(200, TRUE, "Order retrieved successfully", <<orders_db.val[order_id]>>)
    /\ UNCHANGED <<orders_db, logs_db, now, threads, firstOrderRow, lastItemRow, inserted, scansSinceIngest>>

----------------------------------------------------------------------------
(* GET /api/logs                                                           *)

get_logs ==
    /\ resp' = Respond(200, TRUE, "Logs retrieved successfully", logs_db)
    /\ UNCHANGED <<orders_db, logs_db, now, threads, firstOrderRow, lastItemRow, inserted, scansSinceIngest>>

----------------------------------------------------------------------------
(* Time passes between and during requests.                                *)

Tick ==
    /\ now < MaxClock
    /\ now' = now + 1
    /\ UNCHANGED <<orders_db, logs_db, resp, threads, firstOrderRow, lastItemRow, inserted, scansSinceIngest>>

----------------------------------------------------------------------------
(* scan_order on a server thread, one statement at a time.  Nothing in the *)
(* handler takes a lock, and `d['Scanned'] += 1` is a load, an add and a   *)
(* store, between which the interpreter may switch threads.                *)

Threads == 1..NumThreads
Idle == [pc |-> "idle", order_id |-> "", sku |-> "", tmp |-> 0]
InFlight == Cardinality({t \in Threads : threads[t].pc # "idle"})

\* lines 196-210: read the request, validate, look the item up
ScanBegin(t, order_id, sku) ==
    /\ threads[t].pc = "idle"
    /\ IF missing_fields(order_id, sku)
       THEN /\ resp' = Respond(400, FALSE, "Missing required fields", <<>>)
            /\ UNCHANGED threads
       ELSE IF not_found(orders_db, order_id, sku)
       THEN /\ resp' = Respond(404, FALSE, "Order or SKU not found", <<>>)
            /\ UNCHANGED threads
       ELSE /\ Len(logs_db) + InFlight < MaxLogs
            /\ threads' = [threads EXCEPT ![t] = [pc |-> "load", order_id |-> order_id,
                                                  sku |-> sku, tmp |-> 0]]
            /\ UNCHANGED resp
    /\ UNCHANGED <<orders_db, logs_db, now, firstOrderRow, lastItemRow, inserted, scansSinceIngest>>

\* line 213, the load of d['Scanned']
ScanLoad(t) ==
    /\ threads[t].pc = "load"
    /\ threads' = [threads EXCEPT ![t].pc = "store",
                       ![t].tmp = orders_db.val[threads[t].order_id].SKUs.val[threads[t].sku].Scanned]
    /\ UNCHANGED <<orders_db, logs_db, now, resp, firstOrderRow, lastItemRow, inserted, scansSinceIngest>>

\* line 213, the store of the loaded value plus one
ScanStore(t) ==
    /\ threads[t].pc = "store"
    /\ orders_db' = set_item_field(orders_db, threads[t].order_id, threads[t].sku,
                                   "Scanned", threads[t].tmp + 1)
    /\ threads' = [threads EXCEPT ![t].pc = "stamp"]
    /\ UNCHANGED <<logs_db, now, resp, firstOrderRow, lastItemRow, inserted, scansSinceIngest>>

\* line 216
ScanStamp(t) ==
    /\ threads[t].pc = "stamp"
    /\ orders_db' = set_item_field(orders_db, threads[t].order_id, threads[t].sku,
                                   "ScanTimestamp", <<strftime_minutes(now)>>)
    /\ threads' = [threads EXCEPT ![t].pc = "log"]
    /\ UNCHANGED <<logs_db, now, resp, firstOrderRow, lastItemRow, inserted, scansSinceIngest>>

\* lines 218-227: add_log and the response
ScanReturn(t) ==
    /\ threads[t].pc = "log"
    /\ logs_db' = scan_log(logs_db, orders_db, threads[t].order_id, threads[t].sku, now)
    /\ resp' = Respond(200, TRUE, "Scan successful", <<>>)
    /\ scansSinceIngest' = FnSet(scansSinceIngest, <<threads[t].order_id, threads[t].sku>>,
                                 scansSinceIngest[<<threads[t].order_id, threads[t].sku>>] + 1)
    /\ threads' = [threads EXCEPT ![t] = Idle]
    /\ UNCHANGED <<orders_db, now, firstOrderRow, lastItemRow, inserted>>

----------------------------------------------------------------------------
(* The requests explored.                                                  *)

Row(order_id, sku, quantity, price, state, city, payment) ==
    [OrderID |-> order_id, SKU |-> sku, Title |-> PyStr("Item " \o str(sku)),
     Color |-> PyStr("Red"), Quantity |-> quantity, Price |-> price,
     State |-> PyStr(state), City |-> PyStr(city), Payment |-> payment]

\* Cells as pandas hands them over: numbers, text, and NaN for an empty cell.
SheetRows ==
    { Row(PyInt(1001), PyStr("A1"), PyInt(2), PyInt(15000), "Tehran", "Tehran", PyInt(20000)),
      Row(PyInt(1001), PyStr("A1"), PyInt(1), NaN, "Fars", "Shiraz", NaN),
      Row(PyInt(1001), PyStr("A2"), PyStr("abc"), PyInt(5000), "Fars", "Shiraz", NaN),
      Row(PyStr("1002"), PyStr("A1"), NaN, PyInt(5000), "Tehran", "Tehran", PyInt(20000)),
      Row(PyStr("1002"), PyStr("A2"), PyInt(-1), PyInt(5000), "Fars", "Shiraz", PyStr("abc")),
      Row(PyStr("1002"), PyStr("A1"), PyInt(1), PyStr("abc"), "Tehran", "Tehran", NaN),
      Row(NaN, PyStr("A1"), PyInt(1), PyInt(5000), "Tehran", "Tehran", NaN),
      Row(PyInt(1001), NaN, PyInt(1), PyInt(5000), "Tehran", "Tehran", NaN) }

RECURSIVE SeqsUpTo(_, _)
SeqsUpTo(S, n) ==
    IF n = 0 THEN {<<>>}
    ELSE LET shorter == SeqsUpTo(S, n - 1)
         IN  shorter \cup {Append(q, x) : q \in shorter, x \in S}

Sheets == SeqsUpTo(SheetRows, MaxRows)

UploadRequests ==
    { [file |-> FALSE, xlsx |-> FALSE, readable |-> FALSE, rows |-> <<>>],
      [file |-> TRUE, xlsx |-> FALSE, readable |-> FALSE, rows |-> <<>>],
      [file |-> TRUE, xlsx |-> TRUE, readable |-> FALSE, rows |-> <<>>] }
    \cup { [file |-> TRUE, xlsx |-> TRUE, readable |-> TRUE, rows |-> rows] : rows \in Sheets }

ScanOrderIds == {"", "1001", "1002", "9999"}
ScanSkus == {"", "A1", "A2"}
GetOrderIds == {"1001", "9999"}

----------------------------------------------------------------------------

Init ==
    /\ orders_db = EmptyDict
    /\ logs_db = <<>>
    /\ now = 0
    /\ resp = Respond(0, FALSE, "", <<>>)
    /\ threads = [t \in Threads |-> Idle]
    /\ firstOrderRow = <<>>
    /\ lastItemRow = <<>>
    /\ scansSinceIngest = <<>>
    /\ inserted = [orders |-> <<>>, skus |-> <<>>]

Upload == \E req \in UploadRequests : upload_file(req)
Scan == \E order_id \in ScanOrderIds, sku \in ScanSkus : scan_order(order_id, sku)
GetOrders == get_orders
GetOrder == \E order_id \in GetOrderIds : get_order(order_id)
GetLogs == get_logs

Next ==
    \/ Upload
    \/ Scan
    \/ GetOrders
    \/ GetOrder
    \/ GetLogs
    \/ Tick

Spec == Init /\ [][Next]_vars

\* Sheets are uploaded while no scan is in flight; scans overlap freely.
UploadQuiet == AllIdle /\ Upload
ThreadBegin == \E t \in Threads, order_id \in ScanOrderIds, sku \in ScanSkus : ScanBegin(t, order_id, sku)
ThreadLoad == \E t \in Threads : ScanLoad(t)
ThreadStore == \E t \in Threads : ScanStore(t)
ThreadStamp == \E t \in Threads : ScanStamp(t)
ThreadReturn == \E t \in Threads : ScanReturn(t)

NextConc ==
    \/ UploadQuiet
    \/ ThreadBegin
    \/ ThreadLoad
    \/ ThreadStore
    \/ ThreadStamp
    \/ ThreadReturn

SpecConc == Init /\ [][NextConc]_vars

----------------------------------------------------------------------------
(* Vocabulary of the properties.                                           *)

\* the (order id, sku) pairs of the line items in a store
Items(db) == UNION {{<<o, s>> : s \in DictKeys(db.val[o].SKUs)} : o \in DictKeys(db)}
ItemAt(db, k) == db.val[k[1]].SKUs.val[k[2]]
OrderFields(order) ==
    [State |-> order.State, City |-> order.City, Payment |-> order.Payment,
     Status |-> order.Status]

----------------------------------------------------------------------------
\* C1: over any sequence of ingest and scan operations the scannedCount of
\* every line item never decreases: no step removes a line item or lowers
\* its Scanned, an upload of a row for an already-scanned item included.
C1_ScannedNeverDecreases ==
    [][\A k \in Items(orders_db) :
          /\ k \in Items(orders_db')
          /\ ItemAt(orders_db', k).Scanned >= ItemAt(orders_db, k).Scanned]_vars

----------------------------------------------------------------------------
StoreUntouched ==
    /\ orders_db' = orders_db
    /\ Len(orders_list(orders_db', 1)) = Len(orders_list(orders_db, 1))

\* C2 as stated: a scan of a pair that names no line item always answers
\* NotFound (404) and leaves the store and the listLineItems count as they were.
C2_ScanUnknownIsNotFound ==
    [][\A o \in ScanOrderIds, s \in ScanSkus :
          (<<o, s>> \notin Items(orders_db) /\ scan_order(o, s))
              => (resp'.code = 404 /\ ~resp'.success /\ StoreUntouched)]_vars

\* C2 amended: a scan of a pair that names no line item always fails, with
\* NotFound (404) when both identifiers are non-empty and with the
\* missing-fields error (400) when either is empty, and in both cases leaves
\* the store and the listLineItems count as they were.
C2_ScanUnknownFails ==
    [][\A o \in ScanOrderIds, s \in ScanSkus :
          (<<o, s>> \notin Items(orders_db) /\ scan_order(o, s))
              => /\ resp'.code = IF o = "" \/ s = "" THEN 400 ELSE 404
                 /\ ~resp'.success
                 /\ StoreUntouched]_vars

\* a scan was answered NotFound while the store holds line items
C2_Witness ==
    /\ resp.code = 404
    /\ resp.message = "Order or SKU not found"
    /\ Items(orders_db) # {}

----------------------------------------------------------------------------
\* C3: a successful scan(o, s) raises the Scanned of exactly item (o, s) by
\* exactly 1 and sets its ScanTimestamp to the current minute; its Title, Color, Quantity and Price,
\* every other line item, the set of line items, the order of the keys and
\* every order-level field stay as they were.
C3_ScanTouchesOneItem ==
    [][\A o \in ScanOrderIds, s \in ScanSkus :
          (resp'.success /\ scan_order(o, s))
              => /\ <<o, s>> \in Items(orders_db)
                 /\ Items(orders_db') = Items(orders_db)
                 /\ orders_db'.keys = orders_db.keys
                 /\ \A x \in DictKeys(orders_db) :
                       /\ OrderFields(orders_db'.val[x]) = OrderFields(orders_db.val[x])
                       /\ orders_db'.val[x].SKUs.keys = orders_db.val[x].SKUs.keys
                 /\ \A k \in Items(orders_db) \ {<<o, s>>} :
                       ItemAt(orders_db', k) = ItemAt(orders_db, k)
                 /\ LET before == ItemAt(orders_db, <<o, s>>)
                        after == ItemAt(orders_db', <<o, s>>)
                    IN  /\ after.Scanned = before.Scanned + 1
                        /\ after.ScanTimestamp = <<now \div SecondsPerMinute>>
                        /\ after.Title = before.Title
                        /\ after.Color = before.Color
                        /\ after.Quantity = before.Quantity
                        /\ after.Price = before.Price]_vars

\* a scan has just succeeded in a store with two orders and three line items
C3_Witness ==
    /\ resp.message = "Scan successful"
    /\ Cardinality(DictKeys(orders_db)) >= 2
    /\ Cardinality(Items(orders_db)) >= 3
    /\ \E k \in Items(orders_db) : ItemAt(orders_db, k).Scanned = 1

----------------------------------------------------------------------------
\* C4: with scan handlers running side by side no update is lost: the
\* Scanned of a line item is never below the number of scans of it that have
\* returned since it was written, and equals that number whenever no scan is
\* in flight.
C4_NoLostScan ==
    \A k \in Items(orders_db) :
        /\ ItemAt(orders_db, k).Scanned >= scansSinceIngest[k]
        /\ AllIdle => ItemAt(orders_db, k).Scanned = scansSinceIngest[k]

----------------------------------------------------------------------------
MissingKeys == {"", "nan", "None"}
KeysPresent(row) == notna(row.OrderID) /\ notna(row.SKU)
ValidRows(rows) == {i \in DOMAIN rows : KeysPresent(rows[i])}
SheetRequests == {req \in UploadRequests : req.readable}

\* C5: an ingested row without an order identifier or SKU is skipped and the
\* rest of the sheet is processed: the upload reports the number of rows
\* that carry both, and no order and no line item is ever keyed by an empty
\* or missing value.
C5_MissingKeyRowsSkipped ==
    [][\A req \in SheetRequests :
          upload_file(req)
              => /\ resp'.success => resp'.data = <<Cardinality(ValidRows(req.rows))>>
                 /\ \A k \in Items(orders_db') : k[1] \notin MissingKeys /\ k[2] \notin MissingKeys
                 /\ DictKeys(orders_db') \cap MissingKeys = {}]_vars

----------------------------------------------------------------------------
\* C6: in every reachable state, also after an upload that ended in an
\* error, every order in the store has at least one line item.
C6_OrdersHaveItems ==
    \A o \in DictKeys(orders_db) : DictKeys(orders_db.val[o].SKUs) # {}

----------------------------------------------------------------------------
\* C7: an unparseable or missing Quantity, Price or Payment never fails the
\* upload: it succeeds, and every row that carries both keys is in the store
\* afterwards.
C7_BadNumbersNotFatal ==
    [][\A req \in SheetRequests :
          upload_file(req)
              => /\ resp'.success
                 /\ \A i \in ValidRows(req.rows) : ItemKey(req.rows[i]) \in Items(orders_db')]_vars

----------------------------------------------------------------------------
\* The Payment an order shows for a row's Payment cell.
ShownPayment(cell) ==
    CASE cell.kind = "int" -> PyStr(format_grouped(cell.n))
      [] cell.kind = "str" /\ cell.s \in DOMAIN DecimalLiterals ->
            PyStr(format_grouped(DecimalLiterals[cell.s]))
      [] OTHER -> PyNone

\* C8: State, City and Payment of every order are those of the first row
\* applied under its order id, and no step (a later row of the same sheet, a
\* later upload, a scan) changes them.
C8_OrderFieldsFirstWriteWins ==
    [][/\ \A o \in DictKeys(orders_db') :
             /\ o \in DOMAIN firstOrderRow'
             /\ orders_db'.val[o].State = firstOrderRow'[o].State
             /\ orders_db'.val[o].City = firstOrderRow'[o].City
             /\ orders_db'.val[o].Payment = ShownPayment(firstOrderRow'[o].Payment)
       /\ \A o \in DictKeys(orders_db) :
             /\ o \in DictKeys(orders_db')
             /\ OrderFields(orders_db'.val[o]) = OrderFields(orders_db.val[o])]_vars

\* order 1001 was created by a Fars/Shiraz row, and the Tehran row for its
\* SKU A1 (quantity 2) was applied afterwards and then scanned
C8_Witness ==
    /\ DictHas(orders_db, "1001")
    /\ orders_db.val["1001"].State = PyStr("Fars")
    /\ orders_db.val["1001"].Payment = PyNone
    /\ <<"1001", "A1">> \in Items(orders_db)
    /\ ItemAt(orders_db, <<"1001", "A1">>).Quantity = 2
    /\ ItemAt(orders_db, <<"1001", "A1">>).Scanned = 1

----------------------------------------------------------------------------
\* The quantity a row asks for: its number, 0 when the cell is empty.
AskedQuantity(cell) ==
    CASE cell.kind = "int" -> cell.n
      [] cell.kind = "str" /\ cell.s \in DOMAIN DecimalLiterals -> DecimalLiterals[cell.s]
      [] OTHER -> 0

\* C9: the Quantity of every line item is the quantity of the last row
\* written for its (order id, sku), overwritten and never added up, whatever
\* scans happened in between.
C9_QuantityLastWriteWins ==
    \A k \in Items(orders_db) :
        /\ k \in DOMAIN lastItemRow
        /\ ItemAt(orders_db, k).Quantity = AskedQuantity(lastItemRow[k])

\* item (1001, A1) was uploaded, scanned, and uploaded again with quantity 1
C9_Witness ==
    /\ Len(logs_db) = 3
    /\ logs_db[1].message = "File uploaded successfully"
    /\ logs_db[2].message = "Item scanned: Order 1001, SKU A1"
    /\ logs_db[3].message = "File uploaded successfully"
    /\ <<"1001", "A1">> \in Items(orders_db)
    /\ ItemAt(orders_db, <<"1001", "A1">>).Quantity = 1
    /\ ItemAt(orders_db, <<"1001", "A1">>).Scanned = 0

----------------------------------------------------------------------------
\* C10: in every state, each record of GET /api/orders has status Fulfilled
\* exactly when its line item's Scanned >= Quantity and Pending otherwise,
\* and a response of GET /api/orders carries exactly the records computed
\* from the store as it is.
C10_StatusDerived ==
    LET records == orders_list(orders_db, 1)
    IN  /\ \A i \in DOMAIN records :
              LET item == ItemAt(orders_db, <<records[i].id, records[i].sku>>)
              IN  /\ records[i].status = "Fulfilled" <=> item.Scanned >= item.Quantity
                  /\ records[i].status = "Pending" <=> item.Scanned < item.Quantity
        /\ resp.message = "Orders retrieved successfully" => resp.data = records

\* GET /api/orders answered with a record that its scans made Fulfilled and
\* a record that is still Pending
C10_Witness ==
    /\ resp.message = "Orders retrieved successfully"
    /\ \E i, j \in DOMAIN resp.data :
          /\ resp.data[i].status = "Fulfilled"
          /\ resp.data[i].scanned = resp.data[i].quantity
          /\ resp.data[i].scanned >= 1
          /\ resp.data[j].status = "Pending"
          /\ resp.data[j].scanned < resp.data[j].quantity

----------------------------------------------------------------------------
\* C11: scan is not idempotent and has no upper bound: a scan of an existing
\* line item always succeeds and raises its Scanned by 1, also when Scanned
\* has already reached or passed Quantity; an item whose Scanned has reached
\* its Quantity is listed Fulfilled, and a scan of a Fulfilled item leaves it
\* Fulfilled.
C11_OverScanAllowed ==
    [][\A o \in ScanOrderIds, s \in ScanSkus :
          (<<o, s>> \in Items(orders_db) /\ scan_order(o, s))
              => LET before == ItemAt(orders_db, <<o, s>>)
                     after == ItemAt(orders_db', <<o, s>>)
                 IN  /\ resp'.success
                     /\ after.Scanned = before.Scanned + 1
                     /\ after.Scanned >= after.Quantity => item_status(after) = "Fulfilled"
                     /\ item_status(before) = "Fulfilled" => item_status(after) = "Fulfilled"
                     /\ before.Scanned >= before.Quantity => after.Scanned > after.Quantity]_vars

\* a line item asking for 1 unit was scanned twice and is listed Fulfilled
C11_Witness ==
    /\ resp.message = "Scan successful"
    /\ \E k \in Items(orders_db) :
          /\ ItemAt(orders_db, k).Quantity = 1
          /\ ItemAt(orders_db, k).Scanned = 2
          /\ \E i \in DOMAIN orders_list(orders_db, 1) :
                /\ orders_list(orders_db, 1)[i].id = k[1]
                /\ orders_list(orders_db, 1)[i].sku = k[2]
                /\ orders_list(orders_db, 1)[i].status = "Fulfilled"

----------------------------------------------------------------------------
\* the (order id, sku) pairs in order of insertion: orders as first stored,
\* within an order its skus as first stored, from the i-th order on
RECURSIVE InsertionOrder(_)
InsertionOrder(i) ==
    IF i > Len(inserted.orders) THEN <<>>
    ELSE LET o == inserted.orders[i]
             q == inserted.skus[o]
         IN  [j \in DOMAIN q |-> <<o, q[j]>>] \o InsertionOrder(i + 1)

\* records holds one record per line item of the store, in order of
\* insertion, each with the State, City and Payment of its order
ListsTheStore(records) ==
    LET keys == [i \in DOMAIN records |-> <<records[i].id, records[i].sku>>]
    IN  /\ keys = InsertionOrder(1)
        /\ Len(records) = Cardinality(Items(orders_db))
        /\ {keys[i] : i \in DOMAIN keys} = Items(orders_db)
        /\ \A i \in DOMAIN records :
              /\ records[i].state = orders_db.val[records[i].id].State
              /\ records[i].city = orders_db.val[records[i].id].City
              /\ records[i].payment = orders_db.val[records[i].id].Payment

\* C12: GET /api/orders returns exactly one record per (order, SKU) pair of
\* the store, orders in insertion order and SKUs in insertion order within
\* each order, each record with its order's State, City and Payment; neither
\* it nor GET /api/orders/<id> changes the store or the log, and the latter
\* answers NotFound exactly when the id is no key of the store and the order
\* otherwise.
C12_ReadsListTheStore ==
    [][/\ (resp'.message = "Orders retrieved successfully" /\ get_orders)
             => /\ UNCHANGED <<orders_db, logs_db>>
                /\ ListsTheStore(resp'.data)
       /\ \A id \in GetOrderIds :
             (resp'.message \in {"Order not found", "Order retrieved successfully"}
                  /\ get_order(id))
                => /\ UNCHANGED <<orders_db, logs_db>>
                   /\ resp'.code = 404 <=> id \notin DictKeys(orders_db)
                   /\ id \in DictKeys(orders_db)
                         => resp'.success /\ resp'.data = <<orders_db.val[id]>>]_vars

\* GET /api/orders answered with three or more records, those of order 1002
\* (stored first) ahead of those of order 1001
C12_Witness ==
    /\ resp.message = "Orders retrieved successfully"
    /\ Len(resp.data) >= 3
    /\ resp.data[1].id = "1002"
    /\ resp.data[Len(resp.data)].id = "1001"
    /\ \E i \in DOMAIN resp.data : resp.data[i].sku = "A2"

----------------------------------------------------------------------------
\* every key of the dict is listed once
KeysOnce(d) ==
    /\ Len(d.keys) = Cardinality(DictKeys(d))
    /\ {d.keys[i] : i \in DOMAIN d.keys} = DictKeys(d)

RecordsOf(db, k) ==
    {i \in DOMAIN orders_list(db, 1) :
        orders_list(db, 1)[i].id = k[1] /\ orders_list(db, 1)[i].sku = k[2]}

\* C13: nothing is deleted and keys are unique: a step that changes the
\* store keeps every order id and every (order id, sku) pair it held, lists
\* every key once, and leaves exactly one line item (one listed record) per
\* pair, also when the step ingested a row for a pair the store already held.
C13_KeysOnlyGrow ==
    [][orders_db' # orders_db
          => /\ DictKeys(orders_db) \subseteq DictKeys(orders_db')
             /\ Items(orders_db) \subseteq Items(orders_db')
             /\ KeysOnce(orders_db')
             /\ \A o \in DictKeys(orders_db') : KeysOnce(orders_db'.val[o].SKUs)
             /\ \A k \in Items(orders_db') : Cardinality(RecordsOf(orders_db', k)) = 1]_vars

\* two uploads of one row each were processed and the store holds one line
\* item: the second row was for the pair the first had stored
C13_Witness ==
    /\ Len(logs_db) >= 2
    /\ logs_db[1].details = "Processed 1 orders"
    /\ logs_db[2].details = "Processed 1 orders"
    /\ Cardinality(Items(orders_db)) = 1
    /\ Len(orders_list(orders_db, 1)) = 1

----------------------------------------------------------------------------
\* C14: in every reachable state the Quantity and the Scanned of every line
\* item are non-negative, whatever quantities the ingested rows carry.
C14_CountsNonNegative ==
    \A k \in Items(orders_db) :
        ItemAt(orders_db, k).Quantity >= 0 /\ ItemAt(orders_db, k).Scanned >= 0

----------------------------------------------------------------------------
ScanFailures == {"Missing required fields", "Order or SKU not found"}

\* C15: each successful scan appends exactly one log entry with status
\* success whose details report the Scanned count that this scan stored for
\* its line item; a scan answered with missing fields or not found appends
\* no log entry.
C15_ScanLogsItsCount ==
    [][/\ \A t \in Threads :
            (threads[t].pc = "log" /\ threads'[t].pc = "idle")
               => /\ Len(logs_db') = Len(logs_db) + 1
                  /\ SubSeq(logs_db', 1, Len(logs_db)) = logs_db
                  /\ logs_db'[Len(logs_db')].status = "success"
                  /\ logs_db'[Len(logs_db')].details
                        = "Scanned count: " \o ToString(threads[t].tmp + 1)
       /\ (resp'.message \in ScanFailures /\ resp' # resp) => logs_db' = logs_db]_vars

----------------------------------------------------------------------------
IsPrefix(s, t) == Len(s) <= Len(t) /\ SubSeq(t, 1, Len(s)) = s

\* C16: the audit log is append-only: the log before a step is a prefix of
\* the log after it, and every entry's status is success or error.
C16_LogAppendOnly ==
    [][/\ IsPrefix(logs_db, logs_db')
       /\ \A i \in DOMAIN logs_db' : logs_db'[i].status \in {"success", "error"}]_vars

\* GET /api/logs returned a full log that holds entries of both statuses
C16_Witness ==
    /\ resp.message = "Logs retrieved successfully"
    /\ resp.data = logs_db
    /\ Len(logs_db) = MaxLogs
    /\ {logs_db[i].status : i \in DOMAIN logs_db} = {"success", "error"}

----------------------------------------------------------------------------
Stamped(item) == item.ScanTimestamp # <<>>

\* C17: between operations a line item carries a scan timestamp exactly when
\* its Scanned is at least 1; a step that writes a line item by ingestion
\* leaves it with Scanned 0 and no timestamp, and a step after which an item
\* carries a new timestamp is a successful scan that counted that item.
C17_StampIffScanned ==
    [][orders_db' # orders_db
          => \A k \in Items(orders_db') :
                LET item == ItemAt(orders_db', k)
                    fresh == k \notin Items(orders_db)
                IN  /\ Stamped(item) <=> item.Scanned >= 1
                    /\ (resp'.message # "Scan successful"
                          /\ (fresh \/ ItemAt(orders_db, k) # item))
                         => item.Scanned = 0 /\ ~Stamped(item)
                    /\ (Stamped(item)
                          /\ (fresh \/ ItemAt(orders_db, k).ScanTimestamp # item.ScanTimestamp))
                         => /\ resp'.message = "Scan successful"
                            /\ ~fresh
                            /\ item.Scanned = ItemAt(orders_db, k).Scanned + 1]_vars

\* a scanned line item was written again by a later upload and carries
\* neither a count nor a timestamp, while the log still shows its scan
C17_Witness ==
    /\ Len(logs_db) = 3
    /\ logs_db[2].message = "Item scanned: Order 1001, SKU A1"
    /\ logs_db[3].message = "File uploaded successfully"
    /\ <<"1001", "A1">> \in Items(orders_db)
    /\ ~Stamped(ItemAt(orders_db, <<"1001", "A1">>))
    /\ ItemAt(orders_db, <<"1001", "A1">>).Scanned = 0

----------------------------------------------------------------------------
\* the row at which the loop over the sheet raises, 0 if none does
FailedAt(db, rows) == iterrows(db, rows, 1, 0).at
KeysBefore(rows, i) == {ItemKey(rows[j]) : j \in 1..(i - 1)}
LastBefore(rows, i, k) ==
    CHOOSE j \in 1..(i - 1) :
        ItemKey(rows[j]) = k /\ \A m \in (j + 1)..(i - 1) : ItemKey(rows[m]) # k

\* C18: ingestion is not all-or-nothing: when row i of a sheet raises, the
\* upload answers with an error and no processed count and appends one error
\* log entry, every row before i is applied (its line item is stored with the
\* quantity of the last such row and Scanned 0), and no row after i is
\* applied (every other line item is as it was, and every new order id is
\* that of a row up to i).
C18_PartialIngest ==
    [][(resp'.code = 500 /\ logs_db' # logs_db)
          => \A req \in SheetRequests :
                upload_file(req)
                  => LET rows == req.rows
                         i == FailedAt(orders_db, rows)
                     IN  /\ i \in DOMAIN rows
                         /\ ~resp'.success /\ resp'.data = <<>>
                         /\ Len(logs_db') = Len(logs_db) + 1
                         /\ IsPrefix(logs_db, logs_db')
                         /\ logs_db'[Len(logs_db')].status = "error"
                         /\ logs_db'[Len(logs_db')].message = "File processing failed"
                         /\ \A k \in KeysBefore(rows, i) :
                               /\ k \in Items(orders_db')
                               /\ ItemAt(orders_db', k).Quantity
                                    = AskedQuantity(rows[LastBefore(rows, i, k)].Quantity)
                               /\ ItemAt(orders_db', k).Scanned = 0
                         /\ \A k \in Items(orders_db') \ KeysBefore(rows, i) :
                               k \in Items(orders_db) /\ ItemAt(orders_db', k) = ItemAt(orders_db, k)
                         /\ \A o \in DictKeys(orders_db') \ DictKeys(orders_db) :
                               \E j \in 1..i : str(rows[j].OrderID) = o]_vars

\* the only request so far was an upload that failed at its second row and
\* left the line item of its first row in the store
C18_Witness ==
    /\ Len(logs_db) = 1
    /\ logs_db[1].message = "File processing failed"
    /\ resp.code = 500
    /\ Cardinality(Items(orders_db)) = 1

====
